---- MODULE Spec2Model ----
(***************************************************************************)
(* MCP server lifecycle managers of any_agent/tools/mcp.py.                *)
(*                                                                         *)
(* One handle is an instance of a subclass of MCPServerBase.  A step of    *)
(* the model is one run of setup_tools between two suspension points       *)
(* (await): the code between two awaits runs without interleaving, so a    *)
(* consumer can observe the handle only in the states of this model.       *)
(* Tools are modelled by their names; a resource (child process, session,  *)
(* toolset) by its kind and the number of the setup_tools call that        *)
(* opened it.                                                              *)
(***************************************************************************)
EXTENDS Integers, Sequences, FiniteSets, TLC

\* ---------------------------------------------------------------- bounds
NumHandles == 2      \* handle slots
MaxAdv == 2          \* longest tool list a server advertises
MaxReq == 2          \* longest allow-list (mcp_tool.tools)
MaxSetups == 2       \* setup_tools calls per handle
MaxTeardowns == 2    \* teardown calls per handle
MaxManaged == 3      \* longest managed_agents list given to load_openai_agent

\* ---------------------------------------------------------------- domains
Handles == 1..NumHandles
ToolNames == {"search", "fetch"}
Adapters == {"smolagents", "openai", "langchain", "google", "llamaindex", "agno"}
NoAdapter == "none"          \* a slot in which no handle was constructed
NoTools == [some |-> FALSE, val |-> <<>>]   \* mcp_tool.tools = None
Some(names) == [some |-> TRUE, val |-> names]  \* mcp_tool.tools = a list of names
NotLaunched == {"<no child process>"} \* no child process launched yet

\* os.environ of the host process, and the variables a child inherits when
\* the launcher is given no env (mcp's default environment is a safe subset).
HostEnv == {"PATH", "API_KEY"}
DefaultEnv == {"PATH"}

SeqsUpTo(S, n) == UNION {[1..k -> S] : k \in 0..n}
AdvLists == SeqsUpTo(ToolNames, MaxAdv)
ReqLists == SeqsUpTo(ToolNames, MaxReq)
AllowLists == {NoTools} \cup {Some(r) : r \in ReqLists}

Range(s) == {s[i] : i \in DOMAIN s}

VARIABLES
    cap,        \* how many setup_tools / teardown calls the callers make per handle
    mcp_available, \* the mcp package could be imported (lines 11-17)
    installed,  \* installed[h]: the framework package of h's adapter is importable
    ctorErr,    \* exception the constructor call for the slot raised
    adapter,    \* adapter[h]: which subclass of MCPServerBase the handle is
    mcp_tool,   \* self.mcp_tool: [command, args, tools]
    server_params, \* command and args the adapter handed to its framework's client
    tools,      \* self.tools
    pc,         \* position of the setup_tools call of the handle
    nSetups,    \* number of setup_tools calls begun on the handle
    open,       \* resources opened and not closed, in order of acquisition
    held,       \* fields of the handle that refer to a resource: [field, res]
    spawned,    \* number of child server processes launched for the handle
    childEnv,   \* environment the last launched child process received
    served,     \* tool list the server reported to the current/last call
    err,        \* exception the current/last setup_tools call raised
    errInfo,    \* what the message of that exception carries
    log,        \* diagnostics emitted by the current/last setup_tools call
    tdCalls,    \* number of teardown calls made on the handle
    tdErr,      \* exception the last teardown call raised
    loader      \* the load_openai_agent call: its arguments, position and locals

vars == <<loader, cap, mcp_available, installed, ctorErr, adapter, mcp_tool, server_params, tools, pc, nSetups, open, held, spawned,
          childEnv, served, err, errInfo, log, tdCalls, tdErr>>

Res(kind, run) == [kind |-> kind, run |-> run]
\* self.<field> = res, on the fields fs of one handle.
SetField(fs, field, res) ==
    {x \in fs : x.field # field} \cup {[field |-> field, res |-> res]}
NoInfo == [requested |-> NoTools, found |-> <<>>]

\* ---------------------------------------------------------------- Init
\* MCPServerBase.__init__ and the subclasses' __init__: the configuration is
\* stored, tools is the empty list, every resource field is None.
MCPTool(allow) == [command |-> "echo-server", args |-> <<"--port", "0">>, tools |-> allow]

\* The slots of the handles: OnlyAt(hs, f, d) is f[h] on the slots hs and d
\* elsewhere.
OnlyAt(hs, f, d) == [h \in Handles |-> IF h \in hs THEN f[h] ELSE d]

\* The constructor calls: MCPServerBase.__init__ raises ImportError when mcp
\* is not importable, and no handle comes to exist; otherwise it stores the
\* configuration.  as[h] and als[h] are the class and the allow-list the
\* constructor of slot h is called with; the slots outside hs are not used.
Construct(hs, as, als) ==
    /\ ctorErr = OnlyAt(hs, [h \in Handles |->
                              IF mcp_available THEN "none" ELSE "ImportError"], "none")
    /\ adapter = OnlyAt(hs, [h \in Handles |->
                              IF mcp_available THEN as[h] ELSE NoAdapter], NoAdapter)
    /\ mcp_tool = OnlyAt(hs, [h \in Handles |->
                               MCPTool(IF mcp_available THEN als[h] ELSE NoTools)],
                         MCPTool(NoTools))

\* No client has been built for the handle.
NoParams == [command |-> "", args |-> <<>>]

\* load_openai_agent has not been called.
NotLoading ==
    [pc |-> "idle", managed_agents |-> <<>>, agents |-> <<>>,
     tools |-> <<>>, handoffs |-> <<>>, main |-> <<>>]

\* The fields of every handle right after __init__.
Constructed ==
    /\ server_params = [h \in Handles |-> NoParams]
    /\ tools = [h \in Handles |-> <<>>]
    /\ pc = [h \in Handles |-> "idle"]
    /\ nSetups = [h \in Handles |-> 0]
    /\ open = [h \in Handles |-> <<>>]
    /\ held = [h \in Handles |-> {}]
    /\ spawned = [h \in Handles |-> 0]
    /\ childEnv = [h \in Handles |-> NotLaunched]
    /\ served = [h \in Handles |-> <<>>]
    /\ err = [h \in Handles |-> "none"]
    /\ errInfo = [h \in Handles |-> NoInfo]
    /\ log = [h \in Handles |-> {}]
    /\ tdCalls = [h \in Handles |-> 0]
    /\ tdErr = [h \in Handles |-> "none"]

\* One handle, of any adapter and with any allow-list, in a process where mcp
\* and the adapter's framework package may or may not be installed; the other
\* slots are empty.
Init ==
    /\ cap = [setups |-> MaxSetups, teardowns |-> MaxTeardowns]
    /\ mcp_available \in BOOLEAN
    /\ \E fw \in BOOLEAN :
         installed = OnlyAt({1}, [h \in Handles |-> fw \/ ~mcp_available], TRUE)
    /\ \E a \in Adapters, al \in AllowLists :
         Construct({1}, [h \in Handles |-> a], [h \in Handles |-> al])
    /\ Constructed
    /\ loader = NotLoading

\* Two handles of any two adapters, created side by side against two servers,
\* each set up and torn down once by its own task.
PairAllowLists == {NoTools, Some(<<"search">>)}
InitPair ==
    /\ cap = [setups |-> 1, teardowns |-> 1]
    /\ mcp_available \in BOOLEAN
    /\ \E fw1, fw2 \in BOOLEAN :
         installed = OnlyAt({1, 2},
                            [h \in Handles |-> (IF h = 1 THEN fw1 ELSE fw2) \/ ~mcp_available],
                            TRUE)
    /\ \E a1, a2 \in Adapters, al1, al2 \in PairAllowLists :
         Construct({1, 2},
                   [h \in Handles |-> IF h = 1 THEN a1 ELSE a2],
                   [h \in Handles |-> IF h = 1 THEN al1 ELSE al2])
    /\ Constructed
    /\ loader = NotLoading

\* ---------------------------------------------------------------- helpers
\* Upd as it would be if the attribute were kept on the class, shared by
\* every handle, instead of on the instance.
Upd_Shared(f, h, v) == [g \in DOMAIN f |-> v]

\* self.<attribute> = v on handle h: an instance attribute, set in __init__.
Upd(f, h, v) == [f EXCEPT ![h] = v]

Terminal == {"idle", "done", "failed", "cancelled"}
AwaitPcs == {"server_enter", "list_tools", "client_enter", "session_enter",
             "initialize", "load_mcp_tools", "toolset_enter", "load_tools",
             "to_tool_list_async", "mcptools_enter"}

\* Callable as it would be if setup_tools imported the framework's package
\* only after it had launched the server.
\* ' '.join(args) of line 208.
RECURSIVE JoinArgs(_)
JoinArgs(args) ==
    IF args = <<>> THEN ""
    ELSE IF Len(args) = 1 THEN args[1]
    ELSE args[1] \o " " \o JoinArgs(Tail(args))

\* BuildParams as it would be if Agno's joined command line were stored back
\* into self.mcp_tool.
BuildParams_InPlace(a, spec) ==
    IF a = "agno"
    THEN LET joined == spec.command \o " " \o JoinArgs(spec.args) IN
         [mcp_tool |-> [spec EXCEPT !.command = joined, !.args = <<>>],
          server_params |-> [command |-> joined, args |-> <<>>]]
    ELSE [mcp_tool |-> spec,
          server_params |-> [command |-> spec.command, args |-> spec.args]]

\* What each adapter hands to its client, and self.mcp_tool afterwards: the
\* command and args as they are (lines 58-62, 104-110, 133-137, 160-164,
\* 184-188), Agno one "command arg arg" string, a local (line 208).
BuildParams(a, spec) ==
    IF a = "agno"
    THEN [mcp_tool |-> spec,
          server_params |-> [command |-> spec.command \o " " \o JoinArgs(spec.args),
                             args |-> <<>>]]
    ELSE [mcp_tool |-> spec,
          server_params |-> [command |-> spec.command, args |-> spec.args]]

Build(h) ==
    LET b == BuildParams(adapter[h], mcp_tool[h]) IN
    /\ mcp_tool' = Upd(mcp_tool, h, b.mcp_tool)
    /\ server_params' = Upd(server_params, h, b.server_params)

Callable_LateImport(h, a) ==
    /\ adapter[h] = a
    /\ pc[h] \in Terminal
    /\ nSetups[h] < cap.setups

\* A setup_tools call can begin on a handle of adapter a and gets past the
\* import of its first lines: the code has no state check, so any handle that
\* is not inside a call accepts one.
Callable(h, a) ==
    /\ adapter[h] = a
    /\ installed[h]
    /\ pc[h] \in Terminal
    /\ nSetups[h] < cap.setups

At(h, a, p) == adapter[h] = a /\ pc[h] = p

\* Truthy as it would be if line 74 read `if requested_tools is not None:`.
Truthy_NotNone(requested) == requested.some

\* `if requested_tools:` is false for None and for the empty list.
Truthy(requested) == requested.some /\ Len(requested.val) > 0

\* [tool for tool in tools if tool.name in requested_tools]
FilterByName(tools_, names) == SelectSeq(tools_, LAMBDA t : t \in Range(names))

\* The tool lists a native client (llama_index McpToolSpec(allowed_tools=...),
\* agno MCPTools(include_tools=...)) can hand back when it is given the
\* allow-list: everything for None, the named tools for a list; releases of
\* these clients differ on the empty list (everything, or nothing).
ClientFiltered(adv, allowed) ==
    IF ~allowed.some THEN {adv}
    ELSE IF allowed.val = <<>> THEN {adv, <<>>}
    ELSE {FilterByName(adv, allowed.val)}

\* The entry of a call: counters and the per-call diagnostics start afresh.
Begin(h) ==
    /\ nSetups' = Upd(nSetups, h, nSetups[h] + 1)
    /\ errInfo' = Upd(errInfo, h, NoInfo)

\* Propagate as it would be if setup_tools closed the handle's transports
\* before letting the exception out.
Propagate_Closing(h, kind, opened) ==
    /\ pc' = Upd(pc, h, IF kind = "CancelledError" THEN "cancelled" ELSE "failed")
    /\ err' = Upd(err, h, kind)
    /\ open' = Upd(open, h, <<>>)

\* An exception leaves setup_tools.  setup_tools has no try/except/finally
\* and nothing else of the handle reacts to the exception, so what was open
\* when it was raised (opened) stays open.
Propagate(h, kind, opened) ==
    /\ pc' = Upd(pc, h, IF kind = "CancelledError" THEN "cancelled" ELSE "failed")
    /\ err' = Upd(err, h, kind)
    /\ open' = Upd(open, h, opened)

\* ---------------------------------------------------------------- smolagents
\* SmolagentsResolve as it would be if the branch without an allow-list forgot
\* the assignment of line 89.
SmolagentsResolve_NoAssign(cur, tools_, requested_tools) ==
    IF Truthy(requested_tools)
    THEN LET filtered_tools == FilterByName(tools_, requested_tools.val) IN
         IF Len(filtered_tools) # Len(requested_tools.val)
         THEN [raised |-> TRUE, tools |-> cur, log |-> {},
               info |-> [requested |-> requested_tools, found |-> filtered_tools]]
         ELSE [raised |-> FALSE, tools |-> filtered_tools, log |-> {}, info |-> NoInfo]
    ELSE [raised |-> FALSE, tools |-> cur, log |-> {"info_all_tools"}, info |-> NoInfo]

\* SmolagentsResolve as it would be if the message of line 79-81 named the
\* tools found only, not the requested ones.
SmolagentsResolve_FoundOnly(cur, tools_, requested_tools) ==
    IF Truthy(requested_tools)
    THEN LET filtered_tools == FilterByName(tools_, requested_tools.val) IN
         IF Len(filtered_tools) # Len(requested_tools.val)
         THEN [raised |-> TRUE, tools |-> cur, log |-> {},
               info |-> [requested |-> NoTools, found |-> filtered_tools]]
         ELSE [raised |-> FALSE, tools |-> filtered_tools, log |-> {}, info |-> NoInfo]
    ELSE [raised |-> FALSE, tools |-> tools_, log |-> {"info_all_tools"}, info |-> NoInfo]

\* SmolagentsResolve as it would be if line 83 came before the length check.
SmolagentsResolve_AssignFirst(cur, tools_, requested_tools) ==
    IF Truthy(requested_tools)
    THEN LET filtered_tools == FilterByName(tools_, requested_tools.val) IN
         IF Len(filtered_tools) # Len(requested_tools.val)
         THEN [raised |-> TRUE, tools |-> filtered_tools, log |-> {},
               info |-> [requested |-> requested_tools, found |-> filtered_tools]]
         ELSE [raised |-> FALSE, tools |-> filtered_tools, log |-> {}, info |-> NoInfo]
    ELSE [raised |-> FALSE, tools |-> tools_, log |-> {"info_all_tools"}, info |-> NoInfo]

\* Lines 72-89: the allow-list filter, the length check and the assignment.
\* cur is self.tools before the call.
SmolagentsResolve(cur, tools_, requested_tools) ==
    IF Truthy(requested_tools)
    THEN LET filtered_tools == FilterByName(tools_, requested_tools.val) IN
         IF Len(filtered_tools) # Len(requested_tools.val)
         THEN [raised |-> TRUE, tools |-> cur, log |-> {},
               info |-> [requested |-> requested_tools, found |-> filtered_tools]]
         ELSE [raised |-> FALSE, tools |-> filtered_tools, log |-> {}, info |-> NoInfo]
    ELSE [raised |-> FALSE, tools |-> tools_, log |-> {"info_all_tools"}, info |-> NoInfo]

\* setup_tools of SmolagentsMCPServerStdio has no await: it is one step.
Smolagents_setup_tools(h) ==
    /\ Callable(h, "smolagents")
    /\ Build(h)
    /\ \E entered \in BOOLEAN, adv \in AdvLists :
        LET run == nSetups[h] + 1
            col == Res("tool_collection", run)
            r == SmolagentsResolve(tools[h], adv, mcp_tool[h].tools)
        IN
        /\ nSetups' = Upd(nSetups, h, run)
        /\ held' = Upd(held, h,
                IF entered
                THEN SetField(SetField(held[h], "context", col), "tool_collection", col)
                ELSE SetField(held[h], "context", col))
        /\ IF ~entered
           THEN /\ Propagate(h, "TransportError", open[h])
                /\ errInfo' = Upd(errInfo, h, NoInfo)
                /\ log' = Upd(log, h, {})
                /\ UNCHANGED <<tools, spawned, childEnv, served>>
           ELSE /\ spawned' = Upd(spawned, h, spawned[h] + 1)
                /\ childEnv' = Upd(childEnv, h, HostEnv)
                /\ served' = Upd(served, h, adv)
                /\ tools' = Upd(tools, h, r.tools)
                /\ log' = Upd(log, h, r.log)
                /\ errInfo' = Upd(errInfo, h, r.info)
                /\ IF r.raised
                   THEN Propagate(h, "ValueError", Append(open[h], col))
                   ELSE /\ open' = Upd(open, h, Append(open[h], col))
                        /\ pc' = Upd(pc, h, "done")
                        /\ err' = Upd(err, h, "none")
    /\ UNCHANGED <<loader, cap, mcp_available, installed, ctorErr, adapter, tdCalls, tdErr>>

\* ---------------------------------------------------------------- OpenAI
\* Lines 104-112: the server object is stored, then __aenter__ is awaited.
OpenAI_setup_tools(h) ==
    /\ Callable(h, "openai")
    /\ Build(h)
    /\ Begin(h)
    /\ held' = Upd(held, h, SetField(held[h], "server", Res("server", nSetups[h] + 1)))
    /\ pc' = Upd(pc, h, "server_enter")
    /\ err' = Upd(err, h, "none")
    /\ log' = Upd(log, h, {})
    /\ UNCHANGED <<loader, cap, mcp_available, installed, ctorErr, adapter, tools, open, spawned, childEnv, served,
                   tdCalls, tdErr>>

\* Line 112 returns: the server runs, launched from params without env.
OpenAI_server_entered(h) ==
    /\ At(h, "openai", "server_enter")
    /\ \E ok \in BOOLEAN :
        IF ok
        THEN /\ open' = Upd(open, h, Append(open[h], Res("server", nSetups[h])))
             /\ spawned' = Upd(spawned, h, spawned[h] + 1)
             /\ childEnv' = Upd(childEnv, h, DefaultEnv)
             /\ pc' = Upd(pc, h, "list_tools")
             /\ UNCHANGED err
        ELSE /\ Propagate(h, "TransportError", open[h])
             /\ UNCHANGED <<spawned, childEnv>>
    /\ UNCHANGED <<loader, cap, mcp_available, installed, ctorErr, adapter, mcp_tool, server_params, tools, nSetups, held, served, errInfo, log,
                   tdCalls, tdErr>>

\* Lines 114-117: list_tools returns, tools is assigned, the warning is logged.
OpenAI_tools_listed(h) ==
    /\ At(h, "openai", "list_tools")
    /\ \E ok \in BOOLEAN, adv \in AdvLists :
        IF ok
        THEN /\ tools' = Upd(tools, h, adv)
             /\ served' = Upd(served, h, adv)
             /\ log' = Upd(log, h, {"warn_no_filtering"})
             /\ pc' = Upd(pc, h, "done")
             /\ UNCHANGED <<err, open>>
        ELSE /\ Propagate(h, "TransportError", open[h])
             /\ UNCHANGED <<tools, served, log>>
    /\ UNCHANGED <<loader, cap, mcp_available, installed, ctorErr, adapter, mcp_tool, server_params, nSetups, held, spawned, childEnv,
                   errInfo, tdCalls, tdErr>>

\* ---------------------------------------------------------------- LangChain
\* Lines 133-139: self.client is stored, then client.__aenter__ is awaited.
Langchain_setup_tools(h) ==
    /\ Callable(h, "langchain")
    /\ Build(h)
    /\ Begin(h)
    /\ held' = Upd(held, h, SetField(held[h], "client", Res("client", nSetups[h] + 1)))
    /\ pc' = Upd(pc, h, "client_enter")
    /\ err' = Upd(err, h, "none")
    /\ log' = Upd(log, h, {})
    /\ UNCHANGED <<loader, cap, mcp_available, installed, ctorErr, adapter, tools, open, spawned, childEnv, served,
                   tdCalls, tdErr>>

\* Lines 139-141: the child process runs; self.session is stored and entered.
Langchain_client_entered(h) ==
    /\ At(h, "langchain", "client_enter")
    /\ \E ok \in BOOLEAN :
        IF ok
        THEN /\ open' = Upd(open, h, Append(open[h], Res("client", nSetups[h])))
             /\ spawned' = Upd(spawned, h, spawned[h] + 1)
             /\ childEnv' = Upd(childEnv, h, HostEnv)
             /\ held' = Upd(held, h, SetField(held[h], "session", Res("session", nSetups[h])))
             /\ pc' = Upd(pc, h, "session_enter")
             /\ UNCHANGED err
        ELSE /\ Propagate(h, "TransportError", open[h])
             /\ UNCHANGED <<spawned, childEnv, held>>
    /\ UNCHANGED <<loader, cap, mcp_available, installed, ctorErr, adapter, mcp_tool, server_params, tools, nSetups, served, errInfo, log,
                   tdCalls, tdErr>>

\* Lines 141-142: the session is open; initialize is awaited.
Langchain_session_entered(h) ==
    /\ At(h, "langchain", "session_enter")
    /\ \E ok \in BOOLEAN :
        IF ok
        THEN /\ open' = Upd(open, h, Append(open[h], Res("session", nSetups[h])))
             /\ pc' = Upd(pc, h, "initialize")
             /\ UNCHANGED err
        ELSE Propagate(h, "TransportError", open[h])
    /\ UNCHANGED <<loader, cap, mcp_available, installed, ctorErr, adapter, mcp_tool, server_params, tools, nSetups, held, spawned, childEnv,
                   served, errInfo, log, tdCalls, tdErr>>

\* Lines 142-143: the handshake is done; load_mcp_tools is awaited.
Langchain_initialized(h) ==
    /\ At(h, "langchain", "initialize")
    /\ \E ok \in BOOLEAN :
        IF ok
        THEN pc' = Upd(pc, h, "load_mcp_tools") /\ UNCHANGED <<err, open>>
        ELSE Propagate(h, "TransportError", open[h])
    /\ UNCHANGED <<loader, cap, mcp_available, installed, ctorErr, adapter, mcp_tool, server_params, tools, nSetups, held, spawned,
                   childEnv, served, errInfo, log, tdCalls, tdErr>>

\* Line 143: load_mcp_tools returns every tool of the session.
Langchain_tools_loaded(h) ==
    /\ At(h, "langchain", "load_mcp_tools")
    /\ \E ok \in BOOLEAN, adv \in AdvLists :
        IF ok
        THEN /\ tools' = Upd(tools, h, adv)
             /\ served' = Upd(served, h, adv)
             /\ pc' = Upd(pc, h, "done")
             /\ UNCHANGED <<err, open>>
        ELSE /\ Propagate(h, "TransportError", open[h])
             /\ UNCHANGED <<tools, served>>
    /\ UNCHANGED <<loader, cap, mcp_available, installed, ctorErr, adapter, mcp_tool, server_params, nSetups, held, spawned, childEnv,
                   errInfo, log, tdCalls, tdErr>>

\* ---------------------------------------------------------------- Google
\* Lines 160-167: the toolset is a local of setup_tools; __aenter__ is awaited.
Google_setup_tools(h) ==
    /\ Callable(h, "google")
    /\ Build(h)
    /\ Begin(h)
    /\ pc' = Upd(pc, h, "toolset_enter")
    /\ err' = Upd(err, h, "none")
    /\ log' = Upd(log, h, {})
    /\ UNCHANGED <<loader, cap, mcp_available, installed, ctorErr, adapter, tools, open, held, spawned, childEnv,
                   served, tdCalls, tdErr>>

\* Lines 167-168: the toolset's child process runs; load_tools is awaited.
Google_toolset_entered(h) ==
    /\ At(h, "google", "toolset_enter")
    /\ \E ok \in BOOLEAN :
        IF ok
        THEN /\ open' = Upd(open, h, Append(open[h], Res("toolset", nSetups[h])))
             /\ spawned' = Upd(spawned, h, spawned[h] + 1)
             /\ childEnv' = Upd(childEnv, h, HostEnv)
             /\ pc' = Upd(pc, h, "load_tools")
             /\ UNCHANGED err
        ELSE /\ Propagate(h, "TransportError", open[h])
             /\ UNCHANGED <<spawned, childEnv>>
    /\ UNCHANGED <<loader, cap, mcp_available, installed, ctorErr, adapter, mcp_tool, server_params, tools, nSetups, held, served, errInfo, log,
                   tdCalls, tdErr>>

\* Lines 168-170: load_tools returns; tools and then server are assigned.
Google_tools_loaded(h) ==
    /\ At(h, "google", "load_tools")
    /\ \E ok \in BOOLEAN, adv \in AdvLists :
        IF ok
        THEN /\ tools' = Upd(tools, h, adv)
             /\ served' = Upd(served, h, adv)
             /\ held' = Upd(held, h, SetField(held[h], "server", Res("toolset", nSetups[h])))
             /\ pc' = Upd(pc, h, "done")
             /\ UNCHANGED <<err, open>>
        ELSE /\ Propagate(h, "TransportError", open[h])
             /\ UNCHANGED <<tools, served, held>>
    /\ UNCHANGED <<loader, cap, mcp_available, installed, ctorErr, adapter, mcp_tool, server_params, nSetups, spawned, childEnv,
                   errInfo, log, tdCalls, tdErr>>

\* ---------------------------------------------------------------- LlamaIndex
\* Lines 184-194: client and tool spec are locals; to_tool_list_async is
\* awaited.
LlamaIndex_setup_tools(h) ==
    /\ Callable(h, "llamaindex")
    /\ Build(h)
    /\ Begin(h)
    /\ pc' = Upd(pc, h, "to_tool_list_async")
    /\ err' = Upd(err, h, "none")
    /\ log' = Upd(log, h, {})
    /\ UNCHANGED <<loader, cap, mcp_available, installed, ctorErr, adapter, tools, open, held, spawned, childEnv,
                   served, tdCalls, tdErr>>

\* Line 194: the client ran one session over a child process of its own (it
\* opens and closes it inside the call) and hands back the allowed tools.
LlamaIndex_tools_listed(h) ==
    /\ At(h, "llamaindex", "to_tool_list_async")
    /\ \E ok \in BOOLEAN, adv \in AdvLists :
        IF ok
        THEN /\ \E got \in ClientFiltered(adv, mcp_tool[h].tools) :
                    tools' = Upd(tools, h, got)
             /\ served' = Upd(served, h, adv)
             /\ spawned' = Upd(spawned, h, spawned[h] + 1)
             /\ childEnv' = Upd(childEnv, h, HostEnv)
             /\ pc' = Upd(pc, h, "done")
             /\ UNCHANGED <<err, open>>
        ELSE /\ Propagate(h, "TransportError", open[h])
             /\ UNCHANGED <<tools, served, spawned, childEnv>>
    /\ UNCHANGED <<loader, cap, mcp_available, installed, ctorErr, adapter, mcp_tool, server_params, nSetups, held, errInfo, log,
                   tdCalls, tdErr>>

\* ---------------------------------------------------------------- Agno
\* Lines 208-214: self.server is stored, then __aenter__ is awaited.
Agno_setup_tools(h) ==
    /\ Callable(h, "agno")
    /\ Build(h)
    /\ Begin(h)
    /\ held' = Upd(held, h, SetField(held[h], "server", Res("server", nSetups[h] + 1)))
    /\ pc' = Upd(pc, h, "mcptools_enter")
    /\ err' = Upd(err, h, "none")
    /\ log' = Upd(log, h, {})
    /\ UNCHANGED <<loader, cap, mcp_available, installed, ctorErr, adapter, tools, open, spawned, childEnv, served,
                   tdCalls, tdErr>>

\* Line 214: __aenter__ returns the toolkit, holding the included tools.
Agno_server_entered(h) ==
    /\ At(h, "agno", "mcptools_enter")
    /\ \E ok \in BOOLEAN, adv \in AdvLists :
        IF ok
        THEN /\ \E got \in ClientFiltered(adv, mcp_tool[h].tools) :
                    tools' = Upd(tools, h, got)
             /\ served' = Upd(served, h, adv)
             /\ open' = Upd(open, h, Append(open[h], Res("server", nSetups[h])))
             /\ spawned' = Upd(spawned, h, spawned[h] + 1)
             /\ childEnv' = Upd(childEnv, h, HostEnv)
             /\ pc' = Upd(pc, h, "done")
             /\ UNCHANGED err
        ELSE /\ Propagate(h, "TransportError", open[h])
             /\ UNCHANGED <<tools, served, spawned, childEnv>>
    /\ UNCHANGED <<loader, cap, mcp_available, installed, ctorErr, adapter, mcp_tool, server_params, nSetups, held, errInfo, log, tdCalls, tdErr>>

\* ---------------------------------------------------------------- imports
\* Lines 55, 102, 131, 155-158, 181-182, 206: setup_tools imports the
\* framework's package first; when it is not installed the import raises
\* ImportError out of setup_tools, before anything is built or launched.
Setup_import_fails(h) ==
    /\ adapter[h] \in Adapters
    /\ ~installed[h]
    /\ pc[h] \in Terminal
    /\ nSetups[h] < cap.setups
    /\ Begin(h)
    /\ Propagate(h, "ImportError", open[h])
    /\ log' = Upd(log, h, {})
    /\ UNCHANGED <<loader, cap, mcp_available, installed, ctorErr, adapter, mcp_tool, server_params, tools,
                   held, spawned, childEnv, served, tdCalls, tdErr>>

\* ---------------------------------------------------------------- callers
\* The task awaiting setup_tools is cancelled: CancelledError is raised at the
\* await the coroutine is suspended in and leaves setup_tools like any other
\* exception.  The library call that was awaited unwinds itself; what
\* setup_tools had opened before stays as it is.
Cancel(h) ==
    /\ adapter[h] \in Adapters
    /\ pc[h] \in AwaitPcs
    /\ Propagate(h, "CancelledError", open[h])
    /\ UNCHANGED <<loader, cap, mcp_available, installed, ctorErr, adapter, mcp_tool, server_params, tools, nSetups, held, spawned,
                   childEnv, served, errInfo, log, tdCalls, tdErr>>

\* A caller invokes teardown on the handle.  MCPServerBase and its subclasses
\* define no teardown (nor close, __aexit__ or __del__): the attribute lookup
\* raises AttributeError and the handle is left as it was.
Teardown(h) ==
    /\ adapter[h] \in Adapters
    /\ tdCalls[h] < cap.teardowns
    /\ tdCalls' = Upd(tdCalls, h, tdCalls[h] + 1)
    /\ tdErr' = Upd(tdErr, h, "AttributeError")
    /\ UNCHANGED <<loader, cap, mcp_available, installed, ctorErr, adapter, mcp_tool, server_params, tools, pc, nSetups, open, held, spawned,
                   childEnv, served, err, errInfo, log>>

\* ---------------------------------------------------------------- loader
\* load_openai_agent(main_agent, managed_agents) of any_agent/loaders/openai.py,
\* as test_load_openai_multiagent and test_load_openai_agent_default pin it
\* down: one Agent per managed agent, in order, with its own wrapped tools; a
\* managed agent with handoff=True goes to the main agent's handoffs, any
\* other to its tools as instance.as_tool(); the main Agent is built last.
AgentNames ==
    <<"user-verification-agent", "search-web-agent", "communication-agent",
      "agent-4", "agent-5">>
ToolLists ==
    {<<"ask_user_verification">>, <<"search_web", "visit_webpage">>,
     <<"show_final_answer">>}
DefaultTools == <<"search_web", "visit_webpage">>

\* AgentSchema(name, tools, handoff) of the i-th managed agent.
AgentSchema(i, tools_, handoff) ==
    [name |-> AgentNames[i], tools |-> tools_, handoff |-> handoff]

ManagedLists ==
    UNION {{[i \in 1..n |-> AgentSchema(i, t[i], ho[i])] :
                t \in [1..n -> ToolLists], ho \in [1..n -> BOOLEAN]} :
           n \in 0..MaxManaged}

function_tool(t) == [wrap |-> "function_tool", of |-> t]
as_tool(instance) == [wrap |-> "as_tool", of |-> instance.name]
WrapTools(ts) == [k \in DOMAIN ts |-> function_tool(ts[k])]

\* Agent(name=..., tools=...) for a managed agent.
Agent(cfg) == [name |-> cfg.name, tools |-> WrapTools(cfg.tools)]

\* Attach as it would be if the handoff flag were not looked at.
Attach_AllAsTools(l, cfg, instance) ==
    [l EXCEPT !.tools = Append(@, as_tool(instance))]

\* The managed agent joins the main agent's handoffs or its tools.
Attach(l, cfg, instance) ==
    IF cfg.handoff
    THEN [l EXCEPT !.handoffs = Append(@, instance)]
    ELSE [l EXCEPT !.tools = Append(@, as_tool(instance))]

McpUnchanged ==
    UNCHANGED <<cap, mcp_available, installed, ctorErr, adapter, mcp_tool,
                server_params, tools, pc, nSetups, open, held, spawned, childEnv,
                served, err, errInfo, log, tdCalls, tdErr>>

\* The call is entered: the main agent's own tools are wrapped (the default
\* pair when it is alone).
Load_begin ==
    /\ loader.pc = "called"
    /\ loader' = [loader EXCEPT
                    !.pc = "managed",
                    !.tools = IF loader.managed_agents = <<>>
                              THEN WrapTools(DefaultTools) ELSE <<>>]
    /\ McpUnchanged

\* One turn of the loop over managed_agents.
Load_managed_agent ==
    /\ loader.pc = "managed"
    /\ Len(loader.agents) < Len(loader.managed_agents)
    /\ LET cfg == loader.managed_agents[Len(loader.agents) + 1]
           instance == Agent(cfg)
       IN loader' = Attach([loader EXCEPT !.agents = Append(@, instance)],
                           cfg, instance)
    /\ McpUnchanged

\* After the loop the main Agent is built and returned.
Load_main_agent ==
    /\ loader.pc = "managed"
    /\ Len(loader.agents) = Len(loader.managed_agents)
    /\ loader' = [loader EXCEPT
                    !.pc = "returned",
                    !.main = <<[name |-> "default-name",
                                handoffs |-> loader.handoffs,
                                tools |-> loader.tools]>>]
    /\ McpUnchanged

InitLoad ==
    /\ cap = [setups |-> 0, teardowns |-> 0]
    /\ mcp_available = TRUE
    /\ installed = [h \in Handles |-> TRUE]
    /\ Construct({}, [h \in Handles |-> NoAdapter], [h \in Handles |-> NoTools])
    /\ Constructed
    /\ \E ms \in ManagedLists :
         loader = [NotLoading EXCEPT !.pc = "called", !.managed_agents = ms]

NextLoad == Load_begin \/ Load_managed_agent \/ Load_main_agent

SpecLoad == InitLoad /\ [][NextLoad]_vars

\* ---------------------------------------------------------------- Spec
Next ==
    \E h \in Handles :
        \/ Smolagents_setup_tools(h)
        \/ OpenAI_setup_tools(h)
        \/ OpenAI_server_entered(h)
        \/ OpenAI_tools_listed(h)
        \/ Langchain_setup_tools(h)
        \/ Langchain_client_entered(h)
        \/ Langchain_session_entered(h)
        \/ Langchain_initialized(h)
        \/ Langchain_tools_loaded(h)
        \/ Google_setup_tools(h)
        \/ Google_toolset_entered(h)
        \/ Google_tools_loaded(h)
        \/ LlamaIndex_setup_tools(h)
        \/ LlamaIndex_tools_listed(h)
        \/ Agno_setup_tools(h)
        \/ Agno_server_entered(h)
        \/ Setup_import_fails(h)
        \/ Cancel(h)
        \/ Teardown(h)

Spec == Init /\ [][Next]_vars
SpecPair == InitPair /\ [][Next]_vars

\* ---------------------------------------------------------------- claims
Live(h) == adapter[h] \in Adapters
Ready(h) == Live(h) /\ pc[h] = "done"
AllowList(h) == mcp_tool[h].tools
\* The resources the current/last setup_tools call of h opened and left open.
OpenedByCall(h) == {r \in Range(open[h]) : r.run = nSetups[h]}

\* C1, as claimed: on every adapter, when setup_tools has completed with a
\* (non-empty) allow-list whose names the server all advertises, the resolved
\* tools are the advertised tools named in the allow-list, in the server's
\* order.
C1_AllowListResolvedExactly ==
    \A h \in Handles :
        (/\ Ready(h)
         /\ Truthy(AllowList(h))
         /\ Range(AllowList(h).val) \subseteq Range(served[h]))
        => tools[h] = FilterByName(served[h], AllowList(h).val)

\* C2, as claimed: on every adapter, setup_tools never completes when the
\* allow-list holds a name the server does not advertise.
C2_MissingNameNeverCompletes ==
    \A h \in Handles :
        (/\ Live(h)
         /\ AllowList(h).some
         /\ ~(Range(AllowList(h).val) \subseteq Range(served[h])))
        => pc[h] # "done"

\* C3: on every adapter, when setup_tools has completed without an allow-list
\* (mcp_tool.tools is None), the resolved tools are the list the server
\* reported, in its order.
C3_NoAllowListResolvesAll ==
    \A h \in Handles :
        (Ready(h) /\ ~AllowList(h).some) => tools[h] = served[h]

C3_Witness ==
    \E h \in Handles :
        /\ Ready(h)
        /\ ~AllowList(h).some
        /\ adapter[h] = "langchain"
        /\ tools[h] = <<"search", "fetch">>

\* C4, as claimed: a second setup_tools call on a handle fails with an
\* invalid-state error, and a handle never launches more than one child
\* server process.
C4_SetupNotReentered ==
    \A h \in Handles :
        /\ spawned[h] <= 1
        /\ nSetups[h] >= 2 => err[h] = "InvalidStateError"

\* C5, as claimed: when setup_tools has failed with a transport error, nothing
\* that this call opened is still open.
C5_FailedSetupClosesWhatItOpened ==
    \A h \in Handles :
        (Live(h) /\ pc[h] = "failed" /\ err[h] = "TransportError")
        => OpenedByCall(h) = {}

\* C6: tools is empty when the handle is constructed, and the only step that
\* changes tools is the step in which a setup_tools call completes: at no
\* suspension point of a call that has not completed, and after no failed or
\* cancelled call, does a consumer see tools that the call put there.
C6_ToolsOnlyChangeOnCompletion ==
    /\ \A h \in Handles : tools[h] = <<>>
    /\ [][\A h \in Handles : tools'[h] # tools[h] => pc'[h] = "done"]_vars

C6_Witness ==
    \E h \in Handles :
        /\ pc[h] = "load_mcp_tools"
        /\ nSetups[h] = 1
        /\ Len(open[h]) = 2
        /\ tools[h] = <<>>

\* C7, as claimed: on every adapter, a handle whose setup_tools has completed
\* launched its child server process with the host's environment.
C7_ReadyHasHostEnv ==
    \A h \in Handles : Ready(h) => childEnv[h] = HostEnv

\* C8: when setup_tools has failed because allow-list names are missing on the
\* server (the ValueError of line 78), the transport this call opened is still
\* open and a field of the handle (context) refers to it.
C8_ResolutionErrorLeavesTransportOpen ==
    \A h \in Handles :
        (Live(h) /\ pc[h] = "failed" /\ err[h] = "ValueError")
        => /\ OpenedByCall(h) # {}
           /\ OpenedByCall(h) \subseteq {x.res : x \in held[h]}

C8_Witness ==
    \E h \in Handles :
        /\ pc[h] = "failed"
        /\ err[h] = "ValueError"
        /\ errInfo[h].requested = Some(<<"search", "fetch">>)
        /\ errInfo[h].found = <<"search">>
        /\ open[h] = <<Res("tool_collection", 1)>>

\* C9, as claimed: a second teardown call on a handle raises no exception.
C9_SecondTeardownIsNoOp ==
    \A h \in Handles : tdCalls[h] >= 2 => tdErr[h] = "none"

\* C10, as claimed: a teardown call on a handle whose setup_tools call was
\* cancelled leaves none of the handle's transports open.
C10_TeardownAfterCancelReleases ==
    [][\A h \in Handles :
          (pc[h] = "cancelled" /\ tdCalls'[h] = tdCalls[h] + 1)
          => open'[h] = <<>>]_vars

\* C11: a step taken on one handle (a run of its setup_tools, a failure or a
\* cancellation of it, a teardown call) leaves the resolved tools, the open
\* transports, the fields and the lifecycle position of every other handle as
\* they were, in every interleaving of two handles.
HandleState(h) ==
    <<tools[h], pc[h], nSetups[h], open[h], held[h], spawned[h], childEnv[h],
      served[h], err[h], errInfo[h], log[h], tdCalls[h], tdErr[h]>>

C11_HandlesIndependent ==
    [][\A h, g \in Handles :
          (h # g /\ HandleState(h)' # HandleState(h))
          => /\ tools'[g] = tools[g]
             /\ open'[g] = open[g]
             /\ held'[g] = held[g]
             /\ pc'[g] = pc[g]]_vars

C11_Witness ==
    /\ Ready(1) /\ tools[1] # <<>> /\ open[1] # <<>>
    /\ pc[2] = "cancelled" /\ open[2] # <<>> /\ tdCalls[2] = 1

\* C12, as claimed: every resource the current setup_tools call has opened is
\* referred to by a field of the handle, at every suspension point and after
\* the call.
C12_OpenedResourcesAreHeld ==
    \A h \in Handles :
        Live(h) => OpenedByCall(h) \subseteq {x.res : x \in held[h]}

\* C13, as claimed: once a setup_tools call has completed on a handle (tools
\* is only ever filled by a completed call), no step changes the handle's
\* tools.
C13_ToolsFixedAfterSetup ==
    [][\A h \in Handles :
          (pc[h] = "done" \/ tools[h] # <<>>) => tools'[h] = tools[h]]_vars

\* C14, as claimed: a missing dependency is reported by the constructor, so
\* no handle exists whose framework package is missing and setup_tools never
\* raises the import error.
C14_DependencyErrorAtConstruction ==
    \A h \in Handles : err[h] # "ImportError"

\* C14, amended: when mcp is missing the constructor raises and no handle
\* comes to exist; when the framework's package is missing the handle is
\* constructed and every setup_tools call on it raises the import error, with
\* no child process launched, nothing opened and tools still empty.
C14_DependencyErrorBeforeAnyProcess ==
    /\ ~mcp_available => /\ ctorErr[1] = "ImportError"
                          /\ \A h \in Handles : ~Live(h)
    /\ \A h \in Handles :
          /\ ctorErr[h] = "ImportError" => ~mcp_available
          /\ err[h] = "ImportError" => ~installed[h]
          /\ (Live(h) /\ ~installed[h])
             => /\ spawned[h] = 0 /\ open[h] = <<>> /\ tools[h] = <<>>
                /\ pc[h] \in {"idle", "failed"}
                /\ nSetups[h] >= 1 => err[h] = "ImportError"

C14_Witness ==
    \E h \in Handles :
        /\ Live(h) /\ ~installed[h]
        /\ nSetups[h] = 2 /\ err[h] = "ImportError" /\ spawned[h] = 0

\* C15, as claimed: when setup_tools has completed with a (non-empty)
\* allow-list and the resolved tools are not the advertised tools the
\* allow-list names, the call logged the warning that filtering is unsupported.
C15_NoSilentNonFiltering ==
    \A h \in Handles :
        (/\ Ready(h)
         /\ Truthy(AllowList(h))
         /\ tools[h] # FilterByName(served[h], AllowList(h).val))
        => "warn_no_filtering" \in log[h]

\* C16: no step of any setup_tools call (nor any other step) changes the
\* command, args or tools of a handle's mcp_tool, whether the call goes on,
\* completes or raises; what an adapter derives from them, Agno's joined
\* command line included, is in the parameters handed to the client only.
C16_SetupNeverMutatesServerSpec ==
    [][\A h \in Handles :
          /\ mcp_tool'[h] = mcp_tool[h]
          /\ (adapter[h] = "agno" /\ server_params'[h] # NoParams)
             => server_params'[h].command
                  = mcp_tool[h].command \o " " \o JoinArgs(mcp_tool[h].args)]_vars

C16_Witness ==
    \E h \in Handles :
        /\ adapter[h] = "agno"
        /\ pc[h] = "done"
        /\ server_params[h] = [command |-> "echo-server --port 0", args |-> <<>>]
        /\ mcp_tool[h].command = "echo-server"
        /\ mcp_tool[h].args = <<"--port", "0">>

\* C17: the ValueError of a failed allow-list resolution carries the requested
\* names and the names found on the server, so the requested names that the
\* server does not advertise are the requested names the message does not
\* list as found.
C17_ErrorNamesRequestedAndFound ==
    \A h \in Handles :
        (Live(h) /\ err[h] = "ValueError")
        => /\ errInfo[h].requested = AllowList(h)
           /\ Range(errInfo[h].requested.val) \ Range(errInfo[h].found)
                = Range(AllowList(h).val) \ Range(served[h])

C17_Witness ==
    \E h \in Handles :
        /\ err[h] = "ValueError"
        /\ AllowList(h) = Some(<<"search", "fetch">>)
        /\ served[h] = <<"search">>
        /\ errInfo[h].found = <<"search">>

\* The smolagents call of h went past context.__enter__() and ended.
SmolagentsResolved(h) ==
    /\ adapter[h] = "smolagents"
    /\ nSetups[h] >= 1
    /\ err[h] \in {"none", "ValueError"}

\* C19, as claimed: with a (non-empty) allow-list, the smolagents setup_tools
\* succeeds exactly when every requested name is advertised by the server.
C19_LengthCheckIsSetCheck ==
    \A h \in Handles :
        (SmolagentsResolved(h) /\ Truthy(AllowList(h)))
        => (pc[h] = "done" <=> Range(AllowList(h).val) \subseteq Range(served[h]))

\* C20: with an allow-list that is present and empty, the smolagents
\* setup_tools succeeds, resolves the server's full list and logs the
\* "no specific tools requested" diagnostic, as with no allow-list.
C20_EmptyAllowListMeansAll ==
    \A h \in Handles :
        (SmolagentsResolved(h) /\ AllowList(h) = Some(<<>>))
        => /\ pc[h] = "done"
           /\ tools[h] = served[h]
           /\ "info_all_tools" \in log[h]

C20_Witness ==
    \E h \in Handles :
        /\ SmolagentsResolved(h)
        /\ AllowList(h) = Some(<<>>)
        /\ tools[h] = <<"search", "fetch">>

\* Number of places of seq that hold x.
Count(seq, x) == Cardinality({k \in DOMAIN seq : seq[k] = x})

\* C18: when load_openai_agent has returned, every managed agent was built
\* with its own configured tools in configured order, and is attached to the
\* main agent exactly once: in its handoffs and not in its tools when
\* configured with handoff=True, in its tools as an as_tool wrapper and not
\* in its handoffs otherwise.
C18_ManagedAgentsAttachedOnce ==
    loader.pc = "returned" =>
        /\ Len(loader.agents) = Len(loader.managed_agents)
        /\ \A i \in DOMAIN loader.managed_agents :
            LET cfg == loader.managed_agents[i]
                instance == loader.agents[i]
                main == loader.main[1]
            IN
            /\ instance.name = cfg.name
            /\ instance.tools = WrapTools(cfg.tools)
            /\ Count(main.handoffs, instance) = (IF cfg.handoff THEN 1 ELSE 0)
            /\ Count(main.tools, as_tool(instance)) = (IF cfg.handoff THEN 0 ELSE 1)

\* The arguments of test_load_openai_multiagent, loaded.
C18_Witness ==
    /\ loader.pc = "returned"
    /\ loader.managed_agents =
         <<AgentSchema(1, <<"ask_user_verification">>, FALSE),
           AgentSchema(2, <<"search_web", "visit_webpage">>, FALSE),
           AgentSchema(3, <<"show_final_answer">>, TRUE)>>
    /\ Len(loader.main[1].handoffs) = 1
    /\ Len(loader.main[1].tools) = 2

====
